---- MODULE Spec2Model ----
(***************************************************************************)
(* Model of src/imagination/vulkan/pvr_hardcode.c: the table of hard coded *)
(* shaders of the PowerVR Vulkan driver and the functions that read it.    *)
(*                                                                         *)
(* The table is static const data.  The claims speak of every registry     *)
(* and every entry, so Init draws the table from a bounded family that     *)
(* contains the shipped table (ShippedTable) next to tables with graphics  *)
(* entries, several entries and duplicate names.  The process name is      *)
(* fixed for the life of the process, so Init draws it as well.            *)
(*                                                                         *)
(* assert() is modelled as the source writes it: a failed assertion        *)
(* aborts the process.  Dereferencing the NULL that                        *)
(* pvr_get_hard_coding_data() returns for an unknown program is undefined  *)
(* behaviour; the outcomes a build produces for a read a few bytes above   *)
(* address 0 are a memory fault or a compiler inserted trap, and the model *)
(* chooses between them nondeterministically.  After either the process    *)
(* is gone: no action is enabled once fatal # "none".                      *)
(***************************************************************************)
EXTENDS Integers, Sequences, FiniteSets, TLC

\* ------------------------------------------------------------------ bounds

\* Largest shader_count of a graphics entry of the table family.
MaxShaderCount == 2

\* Largest number of entries of a table of the family.
MaxTableLen == 2

\* Largest number of pvr_hard_code_compute_pipeline() calls in one run.
MaxCalls == 2

\* ------------------------------------------------------- program constants

NULL == 0

\* The sentinel of rogue.h for "no register"; its number is not in this file,
\* so registers that may be unused are named, not numbered.
ROGUE_REG_UNUSED == "ROGUE_REG_UNUSED"

PVR_HARD_CODE_SHADER_TYPE_COMPUTE == "PVR_HARD_CODE_SHADER_TYPE_COMPUTE"

PVR_HARD_CODE_SHADER_TYPE_GRAPHICS == "PVR_HARD_CODE_SHADER_TYPE_GRAPHICS"

MESA_SHADER_VERTEX == "MESA_SHADER_VERTEX"

MESA_SHADER_FRAGMENT == "MESA_SHADER_FRAGMENT"

\* Applications for which the compiler is capable of generating valid shaders.
compilable_progs == << "triangle" >>

\* C arrays are indexed from 0, sequences from 1.
At(arr, i) == arr[i + 1]

ARRAY_SIZE(arr) == Len(arr)

\* strcmp(): 0 exactly for equal strings.
strcmp(a, b) == IF a = b THEN 0 ELSE 1

\* ---------------------------------------------------------- the table data

\* The one entry pvr_hardcode.c ships.
SimpleComputePayload ==
    [ shader      |-> "pvr_simple_compute_shader",
      shader_size |-> "sizeof(pvr_simple_compute_shader)",
      shader_info |->
          [ uses_atomic_ops            |-> FALSE,
            uses_barrier               |-> FALSE,
            uses_num_workgroups        |-> FALSE,
            const_shared_reg_count     |-> 4,
            input_register_count       |-> 8,
            work_size                  |-> 1 * 1 * 1,
            coefficient_register_count |-> 4,
            bo                         |-> NULL ],
      build_info  |->
          [ ubo_data              |-> << 0 >>,
            local_invocation_regs |-> << 0, 1 >>,
            work_group_regs       |-> << 0, 1, 2 >>,
            barrier_reg           |-> ROGUE_REG_UNUSED,
            usc_temps             |-> 0,
            explicit_conts_usage  |-> [ start_offset |-> 0 ] ] ]

\* A second compute payload, the fields different from the shipped ones, for
\* the claims that speak of every compute entry.
OtherComputePayload ==
    [ shader      |-> "other_compute_shader",
      shader_size |-> "sizeof(other_compute_shader)",
      shader_info |->
          [ uses_atomic_ops            |-> TRUE,
            uses_barrier               |-> TRUE,
            uses_num_workgroups        |-> TRUE,
            const_shared_reg_count     |-> 6,
            input_register_count       |-> 10,
            work_size                  |-> 2 * 2 * 1,
            coefficient_register_count |-> 12,
            bo                         |-> NULL ],
      build_info  |->
          [ ubo_data              |-> << 1 >>,
            local_invocation_regs |-> << 2, 3 >>,
            work_group_regs       |-> << 4, 5, 6 >>,
            barrier_reg           |-> "reg 7",
            usc_temps             |-> 3,
            explicit_conts_usage  |-> [ start_offset |-> 8 ] ] ]

ComputeEntry(name, payload) ==
    [ name |-> name, type |-> PVR_HARD_CODE_SHADER_TYPE_COMPUTE, compute |-> payload ]

GraphicsEntry(name, payload) ==
    [ name |-> name, type |-> PVR_HARD_CODE_SHADER_TYPE_GRAPHICS, graphics |-> payload ]

ShippedTable == << ComputeEntry("simple-compute", SimpleComputePayload) >>

\* struct pvr_vertex_shader_state / pvr_fragment_shader_state of a pipeline,
\* from a seed k; the four counts of one seed are pairwise different, and so
\* are the counts of different seeds.
VertexState(k) ==
    [ stage_state |-> [ temps_count |-> 10 * k + 1, coefficient_size |-> 10 * k + 2 ],
      vertex_output_size |-> 10 * k + 5 ]

FragmentState(k) ==
    [ stage_state |-> [ temps_count |-> 10 * k + 3, coefficient_size |-> 10 * k + 4 ],
      pass_type |-> 10 * k + 6 ]

\* Which count of a build info disagrees with the shader state of its index.
Mismatches == { "none", "vert_temps", "frag_temps", "vert_coeffs", "frag_coeffs" }

Off(m, field) == IF m = field THEN 100 ELSE 0

\* struct pvr_hard_code_graphics_build_info for seed k with mismatch m.
BuildInfo(k, m) ==
    [ stage_data       |-> [ id |-> k ],
      vert_common_data |-> [ temps  |-> 10 * k + 1 + Off(m, "vert_temps"),
                             coeffs |-> 10 * k + 2 + Off(m, "vert_coeffs") ],
      frag_common_data |-> [ temps  |-> 10 * k + 3 + Off(m, "frag_temps"),
                             coeffs |-> 10 * k + 4 + Off(m, "frag_coeffs") ],
      vert_explicit_conts_usage |-> [ start_offset |-> 10 * k + 7 ],
      frag_explicit_conts_usage |-> [ start_offset |-> 10 * k + 8 ] ]

\* What the table author chose for one pipeline: the seed of its shader
\* states and the build info written next to them.
PipelineConfigs ==
    { [ seed |-> k, mismatch |-> "none" ] : k \in { 0, 1 } }
        \cup { [ seed |-> 0, mismatch |-> m ] : m \in Mismatches }

\* The graphics payload of a sequence of pipeline configurations.  The
\* binaries are named by their addresses: pipeline_n i has its vertex binary at
\* 2 i + 1 and its fragment binary at 2 i + 2, whatever the binaries contain.
GraphicsPayload(cfgs) ==
    [ vert_shaders       |-> [ i \in 1 .. Len(cfgs) |-> 2 * i - 1 ],
      frag_shaders       |-> [ i \in 1 .. Len(cfgs) |-> 2 * i ],
      vert_shader_states |-> [ i \in 1 .. Len(cfgs) |-> VertexState(cfgs[i].seed) ],
      frag_shader_states |-> [ i \in 1 .. Len(cfgs) |-> FragmentState(cfgs[i].seed) ],
      build_infos        |-> [ i \in 1 .. Len(cfgs) |->
                                   BuildInfo(cfgs[i].seed, cfgs[i].mismatch) ],
      shader_count       |-> Len(cfgs) ]

SeqsUpTo(S, n) == UNION { [ 1 .. k -> S ] : k \in 1 .. n }

EntryNames == { "simple-compute", "triangle" }

ProcessNames == EntryNames \cup { "unknown_app" }

ComputeEntries ==
    { ComputeEntry(n, p) : n \in EntryNames, p \in { SimpleComputePayload, OtherComputePayload } }

\* The graphics entries of the family: up to MaxShaderCount pipelines, at most
\* one of them with a build info that disagrees with its shader states.
GraphicsEntries ==
    { GraphicsEntry("triangle", GraphicsPayload(c)) :
          c \in { d \in SeqsUpTo(PipelineConfigs, MaxShaderCount) :
                      Cardinality({ i \in DOMAIN d : d[i].mismatch # "none" }) <= 1 } }

\* The entries of the tables of more than one entry.
SmallEntries ==
    { ComputeEntry(n, SimpleComputePayload) : n \in EntryNames }
        \cup { GraphicsEntry(n, GraphicsPayload(<< [ seed |-> 0, mismatch |-> "none" ] >>)) :
                   n \in EntryNames }

\* The table family: every entry alone, and every table of small entries,
\* those with duplicate names included.
Tables ==
    { << e >> : e \in ComputeEntries \cup GraphicsEntries }
        \cup SeqsUpTo(SmallEntries, MaxTableLen)

\* ------------------------------------------------------------------- state

VARIABLES
    hard_coding_table,     \* the static table (immutable)
    program,               \* util_get_process_name() of this process
    call,                  \* the last call: function, pipeline_n, resolved data
    ret,                   \* what the last call returned ("none": it did not return)
    fatal,                 \* "none", or how the process ended
    log,                   \* the programs mesa_loge() reported as not found
    shader_state_out,      \* caller's struct pvr_compute_pipeline_shader_state
    build_info_out,        \* caller's struct pvr_hard_code_compute_build_info
    vert_shader_out,       \* caller's struct rogue_shader_binary *
    frag_shader_out,       \* caller's struct rogue_shader_binary *
    vert_state_out,        \* caller's struct pvr_vertex_shader_state
    frag_state_out,        \* caller's struct pvr_fragment_shader_state
    ctx,                   \* caller's struct rogue_build_ctx
    vert_common_data_out,  \* caller's struct pvr_explicit_constant_usage
    frag_common_data_out,  \* caller's struct pvr_explicit_constant_usage
    uploads,               \* the calls of pvr_gpu_upload_usc(), in order
    compute_calls,         \* pvr_hard_code_compute_pipeline() calls past the assertion
    last_n,                \* pipeline_n of the last normal call of each accessor
    required_rets          \* what pvr_hard_code_shader_required() has returned so far

compute_outs == << shader_state_out, build_info_out >>

graphics_outs ==
    << vert_shader_out, frag_shader_out, vert_state_out, frag_state_out,
       ctx, vert_common_data_out, frag_common_data_out >>

caller_outs == << compute_outs, graphics_outs >>

vars ==
    << hard_coding_table, program, call, ret, fatal, log, caller_outs,
       uploads, compute_calls, last_n, required_rets >>

\* A struct the caller allocated and nothing has written yet.
Unwritten == [ unwritten |-> TRUE ]

UnwrittenCtx ==
    [ stage_data  |-> Unwritten,
      common_data |-> [ s \in { MESA_SHADER_VERTEX, MESA_SHADER_FRAGMENT } |-> Unwritten ] ]

NoCall == [ op |-> "none", pipeline_n |-> 0, data |-> NULL ]

Init ==
    /\ hard_coding_table \in Tables
    /\ program \in ProcessNames
    /\ call = NoCall
    /\ ret = "none"
    /\ fatal = "none"
    /\ log = << >>
    /\ shader_state_out = Unwritten
    /\ build_info_out = Unwritten
    /\ vert_shader_out = NULL
    /\ frag_shader_out = NULL
    /\ vert_state_out = Unwritten
    /\ frag_state_out = Unwritten
    /\ ctx = UnwrittenCtx
    /\ vert_common_data_out = Unwritten
    /\ frag_common_data_out = Unwritten
    /\ uploads = << >>
    /\ compute_calls = 0
    /\ last_n = [ vertex_state |-> -1, fragment_state |-> -1, inject_build_info |-> -1 ]
    /\ required_rets = { }

\* ------------------------------------------------------------ pure functions

\* Mutant: the comparison inverted (strcmp() taken for a boolean "equal").
RECURSIVE shader_required_inverted(_, _)
shader_required_inverted(prog, i) ==
    IF ~(i < ARRAY_SIZE(compilable_progs)) THEN TRUE
    ELSE IF strcmp(prog, At(compilable_progs, i)) # 0 THEN FALSE
    ELSE shader_required_inverted(prog, i + 1)

\* The loop of pvr_hard_code_shader_required(), from index i on.
RECURSIVE shader_required_from(_, _)
shader_required_from(prog, i) ==
    IF ~(i < ARRAY_SIZE(compilable_progs)) THEN TRUE
    ELSE IF strcmp(prog, At(compilable_progs, i)) = 0 THEN FALSE
    ELSE shader_required_from(prog, i + 1)

shader_required(prog) == shader_required_from(prog, 0)

\* Mutant: the scan does not stop at the first match, the last match wins.
RECURSIVE get_hard_coding_data_last(_, _, _)
get_hard_coding_data_last(tbl, prog, i) ==
    IF ~(i < ARRAY_SIZE(tbl)) THEN NULL
    ELSE LET rest == get_hard_coding_data_last(tbl, prog, i + 1) IN
         IF rest # NULL THEN rest
         ELSE IF strcmp(prog, At(tbl, i).name) = 0 THEN i + 1
         ELSE NULL

\* The loop of pvr_get_hard_coding_data(), from index i on.  The pointer
\* &hard_coding_table[i] is modelled as i + 1, next to NULL == 0.
RECURSIVE get_hard_coding_data_from(_, _, _)
get_hard_coding_data_from(tbl, prog, i) ==
    IF ~(i < ARRAY_SIZE(tbl)) THEN NULL
    ELSE IF strcmp(prog, At(tbl, i).name) = 0 THEN i + 1
    ELSE get_hard_coding_data_from(tbl, prog, i + 1)

get_hard_coding_data(tbl, prog) == get_hard_coding_data_from(tbl, prog, 0)

\* *data, for data # NULL.
Deref(tbl, data) == tbl[data]

\* mesa_loge("Could not find hard coding data for %s", program)
Logged(data) == IF data = NULL THEN Append(log, program) ELSE log

\* What reading data->type does when data is NULL.
NullDerefOutcomes == { "sigsegv", "trap" }

\* assert(data->type == PVR_HARD_CODE_SHADER_TYPE_COMPUTE)
IsCompute(entry) == entry.type = PVR_HARD_CODE_SHADER_TYPE_COMPUTE

\* assert(data->type == PVR_HARD_CODE_SHADER_TYPE_GRAPHICS)
IsGraphics(entry) == entry.type = PVR_HARD_CODE_SHADER_TYPE_GRAPHICS

\* assert(pipeline_n < data->graphics.shader_count)
InRange(pipeline_n, entry) == pipeline_n < entry.graphics.shader_count

\* The pipeline numbers a caller passes (uint32_t; the family's entries have
\* at most MaxShaderCount pipelines, so MaxShaderCount is out of range for all).
PipelineNs == 0 .. MaxShaderCount

\* VkResult of pvr_gpu_upload_usc().
VkResults == { "VK_SUCCESS", "VK_ERROR_OUT_OF_DEVICE_MEMORY", "VK_ERROR_OUT_OF_HOST_MEMORY" }

\* rogue_get_slc_cache_line_size() of the devices of the model.
CacheLineSizes == { 64, 128 }

\* ----------------------------------------------------------------- actions

\* bool pvr_hard_code_shader_required(void)
pvr_hard_code_shader_required ==
    /\ fatal = "none"
    /\ call' = [ op |-> "shader_required", pipeline_n |-> 0, data |-> NULL ]
    /\ ret' = shader_required(program)
    /\ required_rets' = required_rets \cup { shader_required(program) }
    /\ UNCHANGED << hard_coding_table, program, fatal, log, caller_outs,
                    uploads, compute_calls, last_n >>

\* Mutant: the failed lookup or class check is reported to the caller as an
\* error code and the process goes on.
EndsAtTypeAssertRecovers(data) ==
    /\ ret' = "VK_ERROR_INITIALIZATION_FAILED"
    /\ fatal' = "none"
    /\ UNCHANGED << caller_outs, uploads, compute_calls, last_n >>

\* An accessor whose data is NULL or of the other class: the process ends at
\* the first assertion, which comes before every store.
EndsAtTypeAssert(data) ==
    /\ ret' = "none"
    /\ fatal' \in IF data = NULL THEN NullDerefOutcomes ELSE { "assert_type" }
    /\ UNCHANGED << caller_outs, uploads, compute_calls, last_n >>

\* A graphics accessor whose pipeline_n fails the second assertion.
EndsAtRangeAssert ==
    /\ ret' = "none"
    /\ fatal' = "assert_range"
    /\ UNCHANGED << uploads, compute_calls, last_n >>

\* *build_info_out = data->compute.build_info
ComputeBuildInfo(entry) == entry.compute.build_info

\* Mutant: the shader state is built field by field and work_size is left out.
ComputeShaderInfoNoWorkSize(entry) ==
    [ entry.compute.shader_info EXCEPT !.work_size = 0 ]

\* *shader_state_out = data->compute.shader_info
ComputeShaderInfo(entry) == entry.compute.shader_info

\* The call of pvr_gpu_upload_usc(): its arguments and what it did.  On
\* success it stores the handle of a new buffer through &shader_state_out->bo,
\* on failure it returns before the store.
Upload(entry, cache_line_size, result, bo) ==
    [ shader          |-> entry.compute.shader,
      shader_size     |-> entry.compute.shader_size,
      cache_line_size |-> cache_line_size,
      result          |-> result,
      stored          |-> (result = "VK_SUCCESS"),
      bo              |-> IF result = "VK_SUCCESS" THEN bo ELSE NULL ]

\* Mutant: a failed upload is tried once more.
UploadedWithRetry(ups, u) ==
    IF u.result = "VK_SUCCESS" THEN Append(ups, u) ELSE Append(Append(ups, u), u)

\* The uploader calls after pvr_hard_code_compute_pipeline() made call u.
Uploaded(ups, u) == Append(ups, u)

\* return pvr_gpu_upload_usc(...)
ComputeReturn(u) == u.result

\* VkResult pvr_hard_code_compute_pipeline(device, shader_state_out, build_info_out)
pvr_hard_code_compute_pipeline ==
    /\ fatal = "none"
    /\ compute_calls < MaxCalls
    /\ \E cache_line_size \in CacheLineSizes :
         LET data == get_hard_coding_data(hard_coding_table, program) IN
         /\ call' = [ op |-> "compute_pipeline", pipeline_n |-> 0, data |-> data ]
         /\ log' = Logged(data)
         /\ UNCHANGED << hard_coding_table, program, required_rets >>
         /\ IF data = NULL \/ ~IsCompute(Deref(hard_coding_table, data))
            THEN EndsAtTypeAssert(data)
            ELSE LET entry == Deref(hard_coding_table, data) IN
                 \E result \in VkResults :
                   LET u == Upload(entry, cache_line_size, result, Len(uploads) + 1) IN
                   /\ build_info_out' = ComputeBuildInfo(entry)
                   /\ shader_state_out' =
                          IF u.stored
                          THEN [ ComputeShaderInfo(entry) EXCEPT !.bo = u.bo ]
                          ELSE ComputeShaderInfo(entry)
                   /\ uploads' = Uploaded(uploads, u)
                   /\ compute_calls' = compute_calls + 1
                   /\ ret' = ComputeReturn(u)
                   /\ fatal' = "none"
                   /\ UNCHANGED << graphics_outs, last_n >>

\* Mutant: the vertex binary is read at index 0, as the shader states are.
VertShaderAtZero(entry, pipeline_n) == At(entry.graphics.vert_shaders, 0)

\* data->graphics.vert_shaders[pipeline_n]
VertShader(entry, pipeline_n) == At(entry.graphics.vert_shaders, pipeline_n)

\* data->graphics.frag_shaders[pipeline_n]
FragShader(entry, pipeline_n) == At(entry.graphics.frag_shaders, pipeline_n)

\* void pvr_hard_code_graphics_shaders(pipeline_n, vert_shader_out, frag_shader_out)
pvr_hard_code_graphics_shaders ==
    /\ fatal = "none"
    /\ \E pipeline_n \in PipelineNs :
         LET data == get_hard_coding_data(hard_coding_table, program) IN
         /\ call' = [ op |-> "graphics_shaders", pipeline_n |-> pipeline_n, data |-> data ]
         /\ log' = Logged(data)
         /\ UNCHANGED << hard_coding_table, program, required_rets >>
         /\ IF data = NULL \/ ~IsGraphics(Deref(hard_coding_table, data))
            THEN EndsAtTypeAssert(data)
            ELSE LET entry == Deref(hard_coding_table, data) IN
                 IF ~InRange(pipeline_n, entry)
                 THEN EndsAtRangeAssert /\ UNCHANGED caller_outs
                 ELSE /\ vert_shader_out' = VertShader(entry, pipeline_n)
                      /\ frag_shader_out' = FragShader(entry, pipeline_n)
                      /\ ret' = "void"
                      /\ fatal' = "none"
                      /\ UNCHANGED << compute_outs, vert_state_out, frag_state_out, ctx,
                                      vert_common_data_out, frag_common_data_out,
                                      uploads, compute_calls, last_n >>

\* Mutant: the store is made before the range assertion.
VertStateOutBeforeAssert(entry, pipeline_n, old) ==
    At(entry.graphics.vert_shader_states, 0)

\* Mutant: the record of pipeline_n is stored, not that of index 0.
VertStateOutAtPipelineN(entry, pipeline_n, old) ==
    IF InRange(pipeline_n, entry)
    THEN At(entry.graphics.vert_shader_states, pipeline_n)
    ELSE old

\* *vert_state_out after pvr_hard_code_graphics_vertex_state() for a graphics
\* entry, old being its value before: the store of
\* *data->graphics.vert_shader_states[0] follows the range assertion.
VertStateOut(entry, pipeline_n, old) ==
    IF InRange(pipeline_n, entry)
    THEN At(entry.graphics.vert_shader_states, 0)
    ELSE old

\* *frag_state_out after pvr_hard_code_graphics_fragment_state(), likewise.
FragStateOut(entry, pipeline_n, old) ==
    IF InRange(pipeline_n, entry)
    THEN At(entry.graphics.frag_shader_states, 0)
    ELSE old

\* void pvr_hard_code_graphics_vertex_state(pipeline_n, vert_state_out)
pvr_hard_code_graphics_vertex_state ==
    /\ fatal = "none"
    /\ \E pipeline_n \in PipelineNs :
         LET data == get_hard_coding_data(hard_coding_table, program) IN
         /\ call' = [ op |-> "vertex_state", pipeline_n |-> pipeline_n, data |-> data ]
         /\ log' = Logged(data)
         /\ UNCHANGED << hard_coding_table, program, required_rets >>
         /\ IF data = NULL \/ ~IsGraphics(Deref(hard_coding_table, data))
            THEN EndsAtTypeAssert(data)
            ELSE LET entry == Deref(hard_coding_table, data) IN
                 /\ vert_state_out' = VertStateOut(entry, pipeline_n, vert_state_out)
                 /\ UNCHANGED << compute_outs, vert_shader_out, frag_shader_out,
                                 frag_state_out, ctx, vert_common_data_out,
                                 frag_common_data_out >>
                 /\ IF ~InRange(pipeline_n, entry)
                    THEN EndsAtRangeAssert
                    ELSE /\ last_n' = [ last_n EXCEPT !.vertex_state = pipeline_n ]
                         /\ ret' = "void"
                         /\ fatal' = "none"
                         /\ UNCHANGED << uploads, compute_calls >>

\* void pvr_hard_code_graphics_fragment_state(pipeline_n, frag_state_out)
pvr_hard_code_graphics_fragment_state ==
    /\ fatal = "none"
    /\ \E pipeline_n \in PipelineNs :
         LET data == get_hard_coding_data(hard_coding_table, program) IN
         /\ call' = [ op |-> "fragment_state", pipeline_n |-> pipeline_n, data |-> data ]
         /\ log' = Logged(data)
         /\ UNCHANGED << hard_coding_table, program, required_rets >>
         /\ IF data = NULL \/ ~IsGraphics(Deref(hard_coding_table, data))
            THEN EndsAtTypeAssert(data)
            ELSE LET entry == Deref(hard_coding_table, data) IN
                 /\ frag_state_out' = FragStateOut(entry, pipeline_n, frag_state_out)
                 /\ UNCHANGED << compute_outs, vert_shader_out, frag_shader_out,
                                 vert_state_out, ctx, vert_common_data_out,
                                 frag_common_data_out >>
                 /\ IF ~InRange(pipeline_n, entry)
                    THEN EndsAtRangeAssert
                    ELSE /\ last_n' = [ last_n EXCEPT !.fragment_state = pipeline_n ]
                         /\ ret' = "void"
                         /\ fatal' = "none"
                         /\ UNCHANGED << uploads, compute_calls >>

\* The three stores into *ctx.
InjectedCtx(c, entry, pipeline_n) ==
    LET bi == At(entry.graphics.build_infos, pipeline_n) IN
    [ c EXCEPT !.stage_data = bi.stage_data,
               !.common_data[MESA_SHADER_VERTEX] = bi.vert_common_data,
               !.common_data[MESA_SHADER_FRAGMENT] = bi.frag_common_data ]

\* Mutant: the fourth assertion, on the fragment coefficients, is missing.
ConsistencyAssertThreeOnly(c, entry, pipeline_n) ==
    LET vs == At(entry.graphics.vert_shader_states, pipeline_n)
        fs == At(entry.graphics.frag_shader_states, pipeline_n)
    IN
    IF c.common_data[MESA_SHADER_VERTEX].temps # vs.stage_state.temps_count
    THEN "assert_vert_temps"
    ELSE IF c.common_data[MESA_SHADER_FRAGMENT].temps # fs.stage_state.temps_count
    THEN "assert_frag_temps"
    ELSE IF c.common_data[MESA_SHADER_VERTEX].coeffs # vs.stage_state.coefficient_size
    THEN "assert_vert_coeffs"
    ELSE "none"

\* The four consistency assertions of pvr_hard_code_graphics_inject_build_info(),
\* in the order of the source: the first that fails, or "none".
ConsistencyAssert(c, entry, pipeline_n) ==
    LET vs == At(entry.graphics.vert_shader_states, pipeline_n)
        fs == At(entry.graphics.frag_shader_states, pipeline_n)
    IN
    IF c.common_data[MESA_SHADER_VERTEX].temps # vs.stage_state.temps_count
    THEN "assert_vert_temps"
    ELSE IF c.common_data[MESA_SHADER_FRAGMENT].temps # fs.stage_state.temps_count
    THEN "assert_frag_temps"
    ELSE IF c.common_data[MESA_SHADER_VERTEX].coeffs # vs.stage_state.coefficient_size
    THEN "assert_vert_coeffs"
    ELSE IF c.common_data[MESA_SHADER_FRAGMENT].coeffs # fs.stage_state.coefficient_size
    THEN "assert_frag_coeffs"
    ELSE "none"

\* *vert_common_data_out and *frag_common_data_out, the last two stores.
ExplicitContsUsage(entry, pipeline_n) ==
    LET bi == At(entry.graphics.build_infos, pipeline_n) IN
    [ vert |-> bi.vert_explicit_conts_usage, frag |-> bi.frag_explicit_conts_usage ]

\* void pvr_hard_code_graphics_inject_build_info(pipeline_n, ctx,
\*                                               vert_common_data_out, frag_common_data_out)
pvr_hard_code_graphics_inject_build_info ==
    /\ fatal = "none"
    /\ \E pipeline_n \in PipelineNs :
         LET data == get_hard_coding_data(hard_coding_table, program) IN
         /\ call' = [ op |-> "inject_build_info", pipeline_n |-> pipeline_n, data |-> data ]
         /\ log' = Logged(data)
         /\ UNCHANGED << hard_coding_table, program, required_rets >>
         /\ IF data = NULL \/ ~IsGraphics(Deref(hard_coding_table, data))
            THEN EndsAtTypeAssert(data)
            ELSE LET entry == Deref(hard_coding_table, data) IN
                 IF ~InRange(pipeline_n, entry)
                 THEN EndsAtRangeAssert /\ UNCHANGED caller_outs
                 ELSE LET c    == InjectedCtx(ctx, entry, pipeline_n)
                          fail == ConsistencyAssert(c, entry, pipeline_n)
                      IN
                      /\ ctx' = c
                      /\ fatal' = fail
                      /\ IF fail # "none"
                         THEN /\ ret' = "none"
                              /\ UNCHANGED << vert_common_data_out, frag_common_data_out,
                                              last_n >>
                         ELSE /\ vert_common_data_out' =
                                     ExplicitContsUsage(entry, pipeline_n).vert
                              /\ frag_common_data_out' =
                                     ExplicitContsUsage(entry, pipeline_n).frag
                              /\ last_n' = [ last_n EXCEPT !.inject_build_info = pipeline_n ]
                              /\ ret' = "void"
                      /\ UNCHANGED << compute_outs, vert_shader_out, frag_shader_out,
                                      vert_state_out, frag_state_out, uploads,
                                      compute_calls >>

Next ==
    \/ pvr_hard_code_shader_required
    \/ pvr_hard_code_compute_pipeline
    \/ pvr_hard_code_graphics_shaders
    \/ pvr_hard_code_graphics_vertex_state
    \/ pvr_hard_code_graphics_fragment_state
    \/ pvr_hard_code_graphics_inject_build_info

Spec == Init /\ [][Next]_vars

\* ------------------------------------------------------------------ claims

AccessorOps ==
    { "compute_pipeline", "graphics_shaders", "vertex_state", "fragment_state",
      "inject_build_info" }

GraphicsOps == AccessorOps \ { "compute_pipeline" }

\* The table indexes (from 1) of the entries named as the process.
Matches == { i \in 1 .. Len(hard_coding_table) : hard_coding_table[i].name = program }

Lowest(S) == CHOOSE i \in S : \A j \in S : i <= j

UniqueNames ==
    \A i, j \in 1 .. Len(hard_coding_table) :
        hard_coding_table[i].name = hard_coding_table[j].name => i = j

AllowListed == \E i \in 1 .. Len(compilable_progs) : compilable_progs[i] = program

\* C1, state part: pvr_hard_code_shader_required() returns false exactly when
\* the process name is a name of compilable_progs, whatever the table holds.
C1_ReturnsAllowList ==
    call.op = "shader_required" => (ret = FALSE <=> AllowListed) /\ ret \in BOOLEAN

\* C1, step part: the call changes nothing but the record of the call.
C1_ChangesNothing ==
    call'.op = "shader_required" =>
        UNCHANGED << hard_coding_table, program, fatal, log, caller_outs, uploads,
                     compute_calls, last_n >>

\* C1: for every process identity pvr_hard_code_shader_required() returns
\* false exactly when the identity is in the allow-list and true otherwise,
\* whether or not the identity is in the registry, and it changes no state.
C1_ShaderRequired == [] C1_ReturnsAllowList /\ [][C1_ChangesNothing]_vars

\* C1 witness: an allow-listed identity that is also in the registry was
\* asked about after accessors had written caller outputs; the answer is false.
C1_Witness ==
    /\ call.op = "shader_required"
    /\ ret = FALSE
    /\ Matches # { }
    /\ vert_shader_out # NULL

\* C2: pvr_get_hard_coding_data() returns the entry of lowest index named as
\* the process, NULL exactly when there is none; with unique names, the entry
\* named as the process itself, of its own class.
C2_ResolveEntry ==
    call.op \in AccessorOps =>
        /\ call.data = NULL <=> Matches = { }
        /\ Matches # { } => call.data = Lowest(Matches)
        /\ \A i \in Matches :
               UniqueNames =>
                   /\ Deref(hard_coding_table, call.data) = hard_coding_table[i]
                   /\ Deref(hard_coding_table, call.data).type = hard_coding_table[i].type

\* C2 witness: a table with two entries of the process's name, of different
\* classes, was resolved and the accessor went on to return normally.
C2_Witness ==
    /\ call.op \in AccessorOps
    /\ fatal = "none"
    /\ Cardinality(Matches) > 1
    /\ \E i, j \in Matches : hard_coding_table[i].type # hard_coding_table[j].type

\* The entry the last call resolved, for call.data # NULL.
Entry == Deref(hard_coding_table, call.data)

LastUpload == uploads[Len(uploads)]

ReturnedNormally(op) == call.op = op /\ fatal = "none"

\* C3: after pvr_hard_code_compute_pipeline() returns for a compute entry,
\* *build_info_out equals the entry's build_info and *shader_state_out equals
\* the entry's shader_info in every field but bo, which is the handle the
\* uploader stored (the entry's own bo where it stored none); for the shipped
\* "simple-compute" and a succeeding uploader that is work_size 1, barrier_reg
\* ROGUE_REG_UNUSED and VK_SUCCESS.
C3_ComputeArtifacts ==
    ReturnedNormally("compute_pipeline") =>
        /\ Entry.type = PVR_HARD_CODE_SHADER_TYPE_COMPUTE
        /\ build_info_out = Entry.compute.build_info
        /\ DOMAIN shader_state_out = DOMAIN Entry.compute.shader_info
        /\ \A f \in DOMAIN shader_state_out \ { "bo" } :
               shader_state_out[f] = Entry.compute.shader_info[f]
        /\ shader_state_out.bo =
               IF LastUpload.stored THEN LastUpload.bo ELSE Entry.compute.shader_info.bo
        /\ (hard_coding_table = ShippedTable /\ LastUpload.result = "VK_SUCCESS") =>
               /\ Entry.name = "simple-compute"
               /\ shader_state_out.work_size = 1
               /\ build_info_out.barrier_reg = ROGUE_REG_UNUSED
               /\ ret = "VK_SUCCESS"

\* C3 witness: the shipped table, process "simple-compute", the uploader
\* succeeded and its handle is in the caller's shader state.
C3_Witness ==
    /\ ReturnedNormally("compute_pipeline")
    /\ hard_coding_table = ShippedTable
    /\ program = "simple-compute"
    /\ ret = "VK_SUCCESS"
    /\ shader_state_out.bo # NULL
    /\ shader_state_out.work_size = 1

\* C4, state part: there are as many uploads as calls that passed the class
\* assertion; the last call's upload got the entry's shader and size, and the
\* call returned that upload's result.
C4_UploadsMatchCalls ==
    /\ Len(uploads) = compute_calls
    /\ ReturnedNormally("compute_pipeline") =>
           /\ LastUpload.shader = Entry.compute.shader
           /\ LastUpload.shader_size = Entry.compute.shader_size
           /\ ret = LastUpload.result

\* C4, step part: a call of pvr_hard_code_compute_pipeline() that passes its
\* assertion adds exactly one upload, a failed upload included; no other call
\* adds any.
C4_OneUploadPerCall ==
    IF call'.op = "compute_pipeline" /\ fatal' = "none"
    THEN Len(uploads') = Len(uploads) + 1 /\ compute_calls' = compute_calls + 1
    ELSE uploads' = uploads /\ compute_calls' = compute_calls

\* C4: every pvr_hard_code_compute_pipeline() call past the class assertion
\* makes exactly one uploader call, with the entry's shader and size, and
\* returns its result unchanged; nothing else calls the uploader.
C4_OneUploadVerbatim == [] C4_UploadsMatchCalls /\ [][C4_OneUploadPerCall]_vars

\* C4 witness: two calls, two uploads, the second failed and the failure is
\* what the call returned.
C4_Witness ==
    /\ ReturnedNormally("compute_pipeline")
    /\ compute_calls = 2
    /\ Len(uploads) = 2
    /\ uploads[1].result = "VK_SUCCESS"
    /\ ret = "VK_ERROR_OUT_OF_DEVICE_MEMORY"

\* C5: pvr_hard_code_graphics_shaders(pipeline_n) with pipeline_n <
\* shader_count leaves in the caller's two pointers the addresses stored at
\* vert_shaders[pipeline_n] and frag_shaders[pipeline_n], which are the
\* addresses of no other index.
C5_ShadersAtIndex ==
    ReturnedNormally("graphics_shaders") =>
        /\ Entry.type = PVR_HARD_CODE_SHADER_TYPE_GRAPHICS
        /\ call.pipeline_n < Entry.graphics.shader_count
        /\ vert_shader_out = Entry.graphics.vert_shaders[call.pipeline_n + 1]
        /\ frag_shader_out = Entry.graphics.frag_shaders[call.pipeline_n + 1]
        /\ \A i \in 1 .. Entry.graphics.shader_count :
               i # call.pipeline_n + 1 =>
                   /\ vert_shader_out # Entry.graphics.vert_shaders[i]
                   /\ frag_shader_out # Entry.graphics.frag_shaders[i]

\* C5 witness: the binaries of pipeline 1 of an entry whose two pipelines
\* have equal contents (the same seed) were handed out.
C5_Witness ==
    /\ ReturnedNormally("graphics_shaders")
    /\ call.pipeline_n = 1
    /\ Entry.graphics.vert_shader_states[1] = Entry.graphics.vert_shader_states[2]
    /\ vert_shader_out = 3
    /\ frag_shader_out = 4

\* The last call was a graphics accessor, it resolved a graphics entry and
\* its pipeline_n is not below the entry's shader_count.
OutOfRangeCall ==
    /\ call.op \in GraphicsOps
    /\ call.data # NULL
    /\ Entry.type = PVR_HARD_CODE_SHADER_TYPE_GRAPHICS
    /\ call.pipeline_n >= Entry.graphics.shader_count

\* The last call was a graphics accessor, it resolved a graphics entry and
\* its pipeline_n is below the entry's shader_count.
InRangeCall(op) ==
    /\ call.op = op
    /\ call.data # NULL
    /\ Entry.type = PVR_HARD_CODE_SHADER_TYPE_GRAPHICS
    /\ call.pipeline_n < Entry.graphics.shader_count

\* C6, state part: such a call ends in the range assertion and returns nothing.
C6_OutOfRangeIsFatal == OutOfRangeCall => fatal = "assert_range" /\ ret = "none"

\* C6, step part: it ends there with every caller output and *ctx as before.
C6_NothingWritten == OutOfRangeCall' => UNCHANGED caller_outs

\* C6: each of the four graphics accessors, called for a graphics entry with
\* pipeline_n >= shader_count, ends in the out-of-range assertion before it
\* has written a caller output or a field of *ctx.
C6_OutOfRange == [] C6_OutOfRangeIsFatal /\ [][C6_NothingWritten]_vars

\* C6 witness: pvr_hard_code_graphics_vertex_state(1) on an entry of one
\* pipeline ended in the range assertion, after the same accessor had never
\* stored anything.
C6_Witness ==
    /\ OutOfRangeCall
    /\ call.op = "vertex_state"
    /\ call.pipeline_n = Entry.graphics.shader_count
    /\ fatal = "assert_range"
    /\ vert_state_out = Unwritten
    /\ ctx # UnwrittenCtx

ClassOf(op) ==
    IF op = "compute_pipeline"
    THEN PVR_HARD_CODE_SHADER_TYPE_COMPUTE
    ELSE PVR_HARD_CODE_SHADER_TYPE_GRAPHICS

\* The process name resolves to an entry of the class of the last call.
ResolvesToClass ==
    /\ Matches # { }
    /\ hard_coding_table[Lowest(Matches)].type = ClassOf(call.op)

\* C7, state part: an accessor that returned had an entry of its class; one
\* that had none has ended the process and returned nothing.
C7_NormalOnlyForClass ==
    call.op \in AccessorOps =>
        /\ fatal = "none" => ResolvesToClass
        /\ ret # "none" => ResolvesToClass
        /\ (~ResolvesToClass /\ Matches = { }) => fatal \in NullDerefOutcomes /\ ret = "none"
        /\ (~ResolvesToClass /\ Matches # { }) => fatal = "assert_type" /\ ret = "none"

\* C7, step part: such a call writes no caller output and uploads nothing.
C7_NoWriteNoUpload ==
    (call'.op \in AccessorOps /\ ~ResolvesToClass') => UNCHANGED << caller_outs, uploads >>

\* C7: an accessor completes normally only for an entry of its own class;
\* with no entry or one of the other class it ends fatally, returns neither
\* a value nor an error, writes no output and uploads nothing, also where
\* pvr_hard_code_shader_required() returned true.
C7_WrongClassOrMissing == [] C7_NormalOnlyForClass /\ [][C7_NoWriteNoUpload]_vars

\* C7 witness: pvr_hard_code_shader_required() returned true for a process
\* the table does not name, and pvr_hard_code_compute_pipeline() then ended
\* in the NULL dereference after logging the name.
C7_Witness ==
    /\ call.op = "compute_pipeline"
    /\ required_rets = { TRUE }
    /\ Matches = { }
    /\ fatal \in NullDerefOutcomes
    /\ log = << program >>
    /\ uploads = << >>

ConsistencyFatals ==
    { "assert_vert_temps", "assert_frag_temps", "assert_vert_coeffs", "assert_frag_coeffs" }

\* The four counts of build_infos[n] equal those of the shader states at n
\* (n counted from 0).
CountsAgree(entry, n) ==
    LET bi == entry.graphics.build_infos[n + 1]
        vs == entry.graphics.vert_shader_states[n + 1]
        fs == entry.graphics.frag_shader_states[n + 1]
    IN
    /\ bi.vert_common_data.temps = vs.stage_state.temps_count
    /\ bi.frag_common_data.temps = fs.stage_state.temps_count
    /\ bi.vert_common_data.coeffs = vs.stage_state.coefficient_size
    /\ bi.frag_common_data.coeffs = fs.stage_state.coefficient_size

\* C8: pvr_hard_code_graphics_inject_build_info(pipeline_n), pipeline_n <
\* shader_count, completes normally exactly when the four counts of
\* build_infos[pipeline_n] equal those of the shader states at pipeline_n, and
\* ends in a consistency assertion otherwise; when it completes, *ctx holds
\* the stage data and both common data of build_infos[pipeline_n] and the two
\* outputs its explicit constant usages.
C8_InjectConsistency ==
    InRangeCall("inject_build_info") =>
        LET bi == Entry.graphics.build_infos[call.pipeline_n + 1] IN
        /\ fatal = "none" <=> CountsAgree(Entry, call.pipeline_n)
        /\ fatal # "none" => fatal \in ConsistencyFatals /\ ret = "none"
        /\ fatal = "none" =>
               /\ ret = "void"
               /\ ctx.stage_data = bi.stage_data
               /\ ctx.common_data[MESA_SHADER_VERTEX] = bi.vert_common_data
               /\ ctx.common_data[MESA_SHADER_FRAGMENT] = bi.frag_common_data
               /\ vert_common_data_out = bi.vert_explicit_conts_usage
               /\ frag_common_data_out = bi.frag_explicit_conts_usage

\* C8 witness: pipeline 0 was injected normally, then pipeline 1, whose build
\* info has a fragment temp count other than its shader state's, ended in the
\* assertion on the fragment temps.
C8_Witness ==
    /\ InRangeCall("inject_build_info")
    /\ call.pipeline_n = 1
    /\ last_n.inject_build_info = 0
    /\ fatal = "assert_frag_temps"

C10_InjectedAgreesWithState ==
    (fatal = "none" /\ last_n.inject_build_info >= 0) =>
        /\ last_n.vertex_state = last_n.inject_build_info =>
               /\ ctx.common_data[MESA_SHADER_VERTEX].temps =
                      vert_state_out.stage_state.temps_count
               /\ ctx.common_data[MESA_SHADER_VERTEX].coeffs =
                      vert_state_out.stage_state.coefficient_size
        /\ last_n.fragment_state = last_n.inject_build_info =>
               /\ ctx.common_data[MESA_SHADER_FRAGMENT].temps =
                      frag_state_out.stage_state.temps_count
               /\ ctx.common_data[MESA_SHADER_FRAGMENT].coeffs =
                      frag_state_out.stage_state.coefficient_size

====
